---- MODULE Spec2Model ----
(***************************************************************************)
(* Model of src/main.tsx: the lightbox controller of ProjectDetailPage,    *)
(* the filter/sort derivation of PortfolioPage, and the project store and  *)
(* admin session kept by App, AdminLogin and AdminDashboard.               *)
(*                                                                         *)
(* Each React event handler, promise continuation and DOM event listener   *)
(* is one action.  A state update, the re-render it causes and the effects *)
(* of that render (useEffect bodies and cleanups) are one step: React      *)
(* commits them before the next handler runs.                              *)
(***************************************************************************)
EXTENDS Integers, Sequences, FiniteSets, TLC

\* ------------------------------------------------------------------------
\* Bounds of the model
\* ------------------------------------------------------------------------
MaxGallery == 3      \* longest gallery of a project
MaxCalls == 1        \* openLightbox calls awaiting a platform promise
MaxEvents == 1       \* fullscreenchange events queued for dispatch
MaxExitRequests == 1 \* document.exitFullscreen() promises not yet settled

\* ------------------------------------------------------------------------
\* Lightbox controller (ProjectDetailPage)
\* ------------------------------------------------------------------------

\* useState<number | null>(null): null is modelled as -1
Null == 0 - 1

VARIABLES
  mounted,            \* a ProjectDetailPage instance is rendered
  galleryLen,         \* project.gallery.length (0: empty or missing gallery)
  device,             \* what the platform offers, fixed for the session
  lightboxIndex,      \* the instance's state: Null or the enlarged image
  fullscreenElement,  \* document.fullscreenElement is set
  orientationLocked,  \* screen.orientation is locked to landscape
  bodyOverflow,       \* document.body.style.overflow
  calls,              \* openLightbox calls suspended at an await
  fsEvents,           \* fullscreenchange events queued, not yet dispatched
  exitRequests,       \* exitFullscreen() promises not yet settled
  openedAt,           \* history: index set by the last open (or restart)
  nextStreak,         \* history: consecutive 'next' since openedAt
  last                \* history: the handler that ran last

lbVars == <<mounted, galleryLen, device, lightboxIndex, fullscreenElement,
            orientationLocked, bodyOverflow, calls, fsEvents, exitRequests,
            openedAt, nextStreak, last>>

\* PortfolioPage (see the filter/sort section below)
VARIABLES
  projects,           \* App's project list, as loaded from the catalogue
  type,               \* PortfolioPage's type prop
  searchTerm,         \* PortfolioPage state
  selectedTags,       \* PortfolioPage state: tags in the order toggled on
  sortOrder,          \* PortfolioPage state
  filteredProjects,   \* the useMemo result of the current render
  allTags             \* the useMemo result the tag chips are rendered from

fVars == <<projects, type, searchTerm, selectedTags, sortOrder,
           filteredProjects, allTags>>

\* The page's own variables: all of fVars but the store
pageVars == <<type, searchTerm, selectedTags, sortOrder, filteredProjects,
              allTags>>

\* App, AdminLogin, AdminDashboard and the browser's two storages (see the
\* store and session section below)
VARIABLES
  isLoading,          \* App state
  fetchPc,            \* the startup fetch: "fetch", "body" or "done"
  fetches,            \* catalogue requests issued since the page was loaded
  adminPassword,      \* App state kept by useLocalStorage
  passwordItem,       \* localStorage 'admin-password': <<>> or <<text>>
  loggedIn,           \* App state
  sessionItem,        \* sessionStorage 'admin-logged-in': <<>> or <<text>>
  activePage,         \* App state
  selectedProjectId,  \* App state: Null or an id
  loginError,         \* AdminLogin state: error
  editingProject,     \* AdminDashboard state: [kind |-> "null" | "new"] or
                      \*   [kind |-> "project", project |-> p]
  projectToDelete,    \* AdminDashboard state, likewise
  passwordMessage,    \* AdminDashboard state
  messageTimers,      \* setTimeout callbacks of the mounted dashboard
  appLast             \* history: the handler that ran last and what it saw

appVars == <<isLoading, fetchPc, fetches, adminPassword, passwordItem,
             loggedIn, sessionItem, activePage, selectedProjectId, loginError,
             editingProject, projectToDelete, passwordMessage, messageTimers,
             appLast>>

vars == <<lbVars, fVars, appVars>>

\* window.matchMedia('(pointer: coarse)').matches, and whether
\* requestFullscreen and screen.orientation.lock/unlock exist.  On a device
\* without a coarse pointer the two API flags are never read.
Devices ==
  { [isMobile |-> FALSE, fullscreenApi |-> TRUE, orientationApi |-> TRUE] }
  \cup { [isMobile |-> TRUE, fullscreenApi |-> f, orientationApi |-> o] :
           f \in BOOLEAN, o \in BOOLEAN }

\* The scroll-lock effect's body, run after a render with lightboxIndex = idx
ScrollLockEffect(idx) == IF idx # Null THEN "hidden" ELSE ""

\* Mutation of ScrollLockCleanup: the effect returns no cleanup
ScrollLockCleanupOmitted == bodyOverflow

\* The scroll-lock effect's cleanup, run before the next body and on unmount
ScrollLockCleanup == ""

Last(op, arg) == [op |-> op, prev |-> lightboxIndex, arg |-> arg]

\* setLightboxIndex(v) on the mounted instance, its render and its effects
SetLightboxIndex(v) ==
  /\ lightboxIndex' = v
  /\ bodyOverflow' = ScrollLockEffect(v)

LbInit ==
  /\ mounted = TRUE
  /\ galleryLen \in 0..MaxGallery
  /\ device \in Devices
  /\ lightboxIndex = Null
  /\ fullscreenElement = FALSE
  /\ orientationLocked = FALSE
  /\ bodyOverflow = ScrollLockEffect(Null)
  /\ calls = <<>>
  /\ fsEvents = 0
  /\ exitRequests = 0
  /\ openedAt = Null
  /\ nextStreak = 0
  /\ last = [op |-> "mount", prev |-> Null, arg |-> Null]

\* Array.prototype.splice(k, 1) on the list of suspended calls
RemoveAt(s, k) == [j \in 1..(Len(s) - 1) |-> IF j < k THEN s[j] ELSE s[j + 1]]

\* JavaScript's %: the result takes the sign of the dividend
JsRem(a, b) == IF a >= 0 THEN a % b ELSE 0 - ((0 - a) % b)

\* Mutation of NextIndex: the wrap-around is forgotten
NextIndexNoWrap(prevIndex, gallerySize) == prevIndex + 1

\* Mutation of PrevIndex: gallerySize is not added before the remainder
PrevIndexNoWrap(prevIndex, gallerySize) == JsRem(prevIndex - 1, gallerySize)

\* (prevIndex! + 1) % gallerySize
NextIndex(prevIndex, gallerySize) == (prevIndex + 1) % gallerySize

\* (prevIndex! - 1 + gallerySize) % gallerySize
PrevIndex(prevIndex, gallerySize) == (prevIndex - 1 + gallerySize) % gallerySize

\* openLightbox, last statement: setLightboxIndex(index).  A state update of
\* an instance that has been unmounted is dropped by React.
OpenFinish(c, op) ==
  /\ IF c.orphan
       THEN UNCHANGED <<lightboxIndex, bodyOverflow, openedAt, nextStreak>>
       ELSE /\ SetLightboxIndex(c.idx)
            /\ openedAt' = c.idx
            /\ nextStreak' = 0
  /\ last' = Last(IF c.orphan THEN "open:dropped" ELSE op, c.idx)

\* openLightbox(index) up to its first await, or to its end when nothing is
\* awaited: gallery image `index` was selected
OpenLightbox(index) ==
  /\ mounted
  /\ index \in 0..(galleryLen - 1)
  /\ IF device.isMobile /\ (device.fullscreenApi \/ device.orientationApi)
       THEN /\ Len(calls) < MaxCalls
            /\ calls' = Append(calls,
                 [idx |-> index, orphan |-> FALSE,
                  pc |-> IF device.fullscreenApi THEN "fs" ELSE "lock"])
            /\ last' = Last("open:requested", index)
            /\ UNCHANGED <<lightboxIndex, bodyOverflow, openedAt, nextStreak>>
       ELSE /\ OpenFinish([idx |-> index, orphan |-> FALSE], "open:sync")
            /\ UNCHANGED calls
  /\ UNCHANGED <<mounted, galleryLen, device, fullscreenElement,
                 orientationLocked, fsEvents, exitRequests>>
  /\ UNCHANGED <<fVars, appVars>>

\* requestFullscreen() resolves; openLightbox continues to the lock request,
\* or to its end when screen.orientation.lock does not exist
FullscreenGranted(k) ==
  /\ k \in 1..Len(calls)
  /\ calls[k].pc = "fs"
  /\ fullscreenElement' = TRUE
  /\ IF fullscreenElement
       THEN UNCHANGED fsEvents
       ELSE fsEvents < MaxEvents /\ fsEvents' = fsEvents + 1
  /\ IF device.orientationApi
       THEN /\ calls' = [calls EXCEPT ![k].pc = "lock"]
            /\ last' = Last("open:fsGranted", calls[k].idx)
            /\ UNCHANGED <<lightboxIndex, bodyOverflow, openedAt, nextStreak>>
       ELSE /\ OpenFinish(calls[k], "open:noLockApi")
            /\ calls' = RemoveAt(calls, k)
  /\ UNCHANGED <<mounted, galleryLen, device, orientationLocked, exitRequests>>
  /\ UNCHANGED <<fVars, appVars>>

\* Mutation of FullscreenRejected: no try/catch around the awaits, the
\* rejection ends openLightbox before setLightboxIndex
FullscreenRejectedUncaught(k) ==
  /\ k \in 1..Len(calls)
  /\ calls[k].pc = "fs"
  /\ last' = Last(IF calls[k].orphan THEN "open:dropped" ELSE "open:fsRejected",
                  calls[k].idx)
  /\ calls' = RemoveAt(calls, k)
  /\ UNCHANGED <<mounted, galleryLen, device, lightboxIndex, fullscreenElement,
                 orientationLocked, bodyOverflow, fsEvents, exitRequests,
                 openedAt, nextStreak>>
  /\ UNCHANGED <<fVars, appVars>>

\* requestFullscreen() rejects: the catch block logs, the lock is skipped
FullscreenRejected(k) ==
  /\ k \in 1..Len(calls)
  /\ calls[k].pc = "fs"
  /\ OpenFinish(calls[k], "open:fsRejected")
  /\ calls' = RemoveAt(calls, k)
  /\ UNCHANGED <<mounted, galleryLen, device, fullscreenElement,
                 orientationLocked, fsEvents, exitRequests>>
  /\ UNCHANGED <<fVars, appVars>>

\* screen.orientation.lock('landscape') resolves
LockGranted(k) ==
  /\ k \in 1..Len(calls)
  /\ calls[k].pc = "lock"
  /\ orientationLocked' = TRUE
  /\ OpenFinish(calls[k], "open:lockGranted")
  /\ calls' = RemoveAt(calls, k)
  /\ UNCHANGED <<mounted, galleryLen, device, fullscreenElement, fsEvents,
                 exitRequests>>
  /\ UNCHANGED <<fVars, appVars>>

\* screen.orientation.lock('landscape') rejects: the catch block logs
LockRejected(k) ==
  /\ k \in 1..Len(calls)
  /\ calls[k].pc = "lock"
  /\ OpenFinish(calls[k], "open:lockRejected")
  /\ calls' = RemoveAt(calls, k)
  /\ UNCHANGED <<mounted, galleryLen, device, fullscreenElement,
                 orientationLocked, fsEvents, exitRequests>>
  /\ UNCHANGED <<fVars, appVars>>

\* Mutation of CloseLightbox: closes at once, whatever the fullscreen state
CloseLightboxAtOnce ==
  /\ mounted
  /\ lightboxIndex # Null
  /\ galleryLen > 0
  /\ SetLightboxIndex(Null)
  /\ openedAt' = Null
  /\ nextStreak' = 0
  /\ last' = Last("close", Null)
  /\ UNCHANGED <<mounted, galleryLen, device, fullscreenElement,
                 orientationLocked, calls, fsEvents, exitRequests>>
  /\ UNCHANGED <<fVars, appVars>>

\* closeLightbox: Escape key, close button or backdrop click of the rendered
\* Lightbox (rendered when lightboxIndex !== null and the gallery is not empty)
CloseLightbox ==
  /\ mounted
  /\ lightboxIndex # Null
  /\ galleryLen > 0
  /\ IF fullscreenElement
       THEN /\ exitRequests < MaxExitRequests
            /\ exitRequests' = exitRequests + 1
            /\ last' = Last("close", Null)
            /\ UNCHANGED <<lightboxIndex, bodyOverflow, openedAt, nextStreak>>
       ELSE /\ SetLightboxIndex(Null)
            /\ openedAt' = Null
            /\ nextStreak' = 0
            /\ last' = Last("close", Null)
            /\ UNCHANGED exitRequests
  /\ UNCHANGED <<mounted, galleryLen, device, fullscreenElement,
                 orientationLocked, calls, fsEvents>>
  /\ UNCHANGED <<fVars, appVars>>

\* The document leaves fullscreen: document.fullscreenElement becomes null, a
\* fullscreenchange event is queued, and the platform may or may not release
\* the orientation lock by itself
LeaveFullscreen ==
  /\ fullscreenElement
  /\ fsEvents < MaxEvents
  /\ fullscreenElement' = FALSE
  /\ fsEvents' = fsEvents + 1
  /\ \E released \in BOOLEAN :
       orientationLocked' = IF released THEN FALSE ELSE orientationLocked

\* document.exitFullscreen() resolves
ExitFullscreenResolved ==
  /\ exitRequests > 0
  /\ exitRequests' = exitRequests - 1
  /\ IF fullscreenElement
       THEN LeaveFullscreen
       ELSE UNCHANGED <<fullscreenElement, fsEvents, orientationLocked>>
  /\ last' = Last("platform:exitResolved", Null)
  /\ UNCHANGED <<mounted, galleryLen, device, lightboxIndex, bodyOverflow,
                 calls, openedAt, nextStreak>>
  /\ UNCHANGED <<fVars, appVars>>

\* document.exitFullscreen() rejects: the catch handler logs a warning
ExitFullscreenRejected ==
  /\ exitRequests > 0
  /\ exitRequests' = exitRequests - 1
  /\ last' = Last("platform:exitRejected", Null)
  /\ UNCHANGED <<mounted, galleryLen, device, lightboxIndex, fullscreenElement,
                 orientationLocked, bodyOverflow, calls, fsEvents, openedAt,
                 nextStreak>>
  /\ UNCHANGED <<fVars, appVars>>

\* The user leaves fullscreen with a platform gesture (back gesture, Escape)
UserExitsFullscreen ==
  /\ LeaveFullscreen
  /\ last' = Last("platform:userExit", Null)
  /\ UNCHANGED <<mounted, galleryLen, device, lightboxIndex, bodyOverflow,
                 calls, exitRequests, openedAt, nextStreak>>
  /\ UNCHANGED <<fVars, appVars>>

\* Mutation of HandleFullscreenChange: screen.orientation.unlock() is not called
HandleFullscreenChangeNoUnlock ==
  /\ fsEvents > 0
  /\ fsEvents' = fsEvents - 1
  /\ last' = Last("fullscreenchange", Null)
  /\ IF mounted /\ lightboxIndex # Null /\ ~fullscreenElement
       THEN /\ SetLightboxIndex(Null)
            /\ openedAt' = Null
            /\ nextStreak' = 0
       ELSE UNCHANGED <<lightboxIndex, bodyOverflow, openedAt, nextStreak>>
  /\ UNCHANGED <<mounted, galleryLen, device, fullscreenElement,
                 orientationLocked, calls, exitRequests>>
  /\ UNCHANGED <<fVars, appVars>>

\* handleFullscreenChange: the listener of the current render, which exists
\* only while the instance is mounted
HandleFullscreenChange ==
  /\ fsEvents > 0
  /\ fsEvents' = fsEvents - 1
  /\ last' = Last("fullscreenchange", Null)
  /\ IF mounted /\ lightboxIndex # Null /\ ~fullscreenElement
       THEN /\ orientationLocked' =
                 IF device.isMobile /\ device.orientationApi
                   THEN FALSE ELSE orientationLocked
            /\ SetLightboxIndex(Null)
            /\ openedAt' = Null
            /\ nextStreak' = 0
       ELSE UNCHANGED <<orientationLocked, lightboxIndex, bodyOverflow,
                        openedAt, nextStreak>>
  /\ UNCHANGED <<mounted, galleryLen, device, fullscreenElement, calls,
                 exitRequests>>
  /\ UNCHANGED <<fVars, appVars>>

\* Mutation of HandleLightboxNavigate: the lightboxIndex === null check is
\* missing, so null is coerced to 0 by the arithmetic
HandleLightboxNavigateUnguarded(direction) ==
  /\ mounted
  /\ last' = Last(direction, Null)
  /\ IF galleryLen = 0
       THEN UNCHANGED <<lightboxIndex, bodyOverflow, openedAt, nextStreak>>
       ELSE LET from == IF lightboxIndex = Null THEN 0 ELSE lightboxIndex
            IN /\ SetLightboxIndex(IF direction = "next"
                                     THEN NextIndex(from, galleryLen)
                                     ELSE PrevIndex(from, galleryLen))
               /\ openedAt' = lightboxIndex'
               /\ nextStreak' = 0
  /\ UNCHANGED <<mounted, galleryLen, device, fullscreenElement,
                 orientationLocked, calls, fsEvents, exitRequests>>
  /\ UNCHANGED <<fVars, appVars>>

\* handleLightboxNavigate(direction)
HandleLightboxNavigate(direction) ==
  /\ mounted
  /\ last' = Last(direction, Null)
  /\ IF lightboxIndex = Null \/ galleryLen = 0
       THEN UNCHANGED <<lightboxIndex, bodyOverflow, openedAt, nextStreak>>
       ELSE IF direction = "next"
         THEN /\ SetLightboxIndex(NextIndex(lightboxIndex, galleryLen))
              /\ IF nextStreak < galleryLen
                   THEN /\ nextStreak' = nextStreak + 1
                        /\ UNCHANGED openedAt
                   ELSE /\ nextStreak' = 1
                        /\ openedAt' = lightboxIndex
         ELSE /\ SetLightboxIndex(PrevIndex(lightboxIndex, galleryLen))
              /\ openedAt' = lightboxIndex'
              /\ nextStreak' = 0
  /\ UNCHANGED <<mounted, galleryLen, device, fullscreenElement,
                 orientationLocked, calls, fsEvents, exitRequests>>
  /\ UNCHANGED <<fVars, appVars>>

\* The detail view is torn down (back button, or navigation to another
\* project, which remounts under a new key): effect cleanups run, the
\* instance's state is discarded, suspended openLightbox calls live on
Unmount ==
  /\ mounted
  /\ mounted' = FALSE
  /\ galleryLen' = 0
  /\ lightboxIndex' = Null
  /\ bodyOverflow' = ScrollLockCleanup
  /\ calls' = [k \in 1..Len(calls) |->
                 [calls[k] EXCEPT !.orphan = TRUE, !.idx = 0]]
  /\ openedAt' = Null
  /\ nextStreak' = 0
  /\ last' = Last("unmount", Null)
  /\ UNCHANGED <<device, fullscreenElement, orientationLocked, fsEvents,
                 exitRequests>>
  /\ UNCHANGED <<fVars, appVars>>

\* A detail view is mounted for a selected project
Mount ==
  /\ ~mounted
  /\ mounted' = TRUE
  /\ galleryLen' \in 0..MaxGallery
  /\ lightboxIndex' = Null
  /\ bodyOverflow' = ScrollLockEffect(Null)
  /\ last' = Last("mount", Null)
  /\ UNCHANGED <<device, fullscreenElement, orientationLocked, calls,
                 fsEvents, exitRequests, openedAt, nextStreak>>
  /\ UNCHANGED <<fVars, appVars>>



\* ------------------------------------------------------------------------
\* Filter/sort derivation (PortfolioPage)
\* ------------------------------------------------------------------------
\* A string is a sequence of characters over a small alphabet with both
\* cases.  A project is [id, title, type, hasTags, tags, date]: hasTags is
\* FALSE when the record has no tags property (p.tags is undefined).

ProjectTypes == {"Frontend", "UX Design"}

SortOrders == {"date-desc", "date-asc", "title-asc", "title-desc"}

Range(s) == {s[i] : i \in 1..Len(s)}

\* String.prototype.toLowerCase, per character and per string
LowerChar(c) == CASE c = "A" -> "a" [] c = "B" -> "b" [] OTHER -> c

ToLowerCase(s) == [i \in 1..Len(s) |-> LowerChar(s[i])]

\* String.prototype.includes(t) on strings, Array.prototype.includes on lists
Includes(s, t) ==
  \E start \in 0..(Len(s) - Len(t)) : SubSeq(s, start + 1, start + Len(t)) = t

ArrayIncludes(list, x) == \E i \in 1..Len(list) : list[i] = x

\* Mutation of MatchesType: the type filter lets every project through
MatchesTypeAny(p, t) == TRUE

\* p.type === type
MatchesType(p, t) == p.type = t

\* Mutation of MatchesSearch: && in place of ||
MatchesSearchBoth(p, term) ==
  /\ Includes(ToLowerCase(p.title), ToLowerCase(term))
  /\ p.hasTags
  /\ \E i \in 1..Len(p.tags) :
       Includes(ToLowerCase(p.tags[i]), ToLowerCase(term))

\* p.title.toLowerCase().includes(searchTerm.toLowerCase()) ||
\*   p.tags?.some(t => t.toLowerCase().includes(searchTerm.toLowerCase()))
MatchesSearch(p, term) ==
  \/ Includes(ToLowerCase(p.title), ToLowerCase(term))
  \/ /\ p.hasTags
     /\ \E i \in 1..Len(p.tags) :
          Includes(ToLowerCase(p.tags[i]), ToLowerCase(term))

\* Mutation of MatchesTags: some in place of every
MatchesTagsSome(p, selected) ==
  \/ Len(selected) = 0
  \/ \E i \in 1..Len(selected) :
       p.hasTags /\ ArrayIncludes(p.tags, selected[i])

\* selectedTags.length === 0 || selectedTags.every(st => p.tags?.includes(st))
MatchesTags(p, selected) ==
  \/ Len(selected) = 0
  \/ \A i \in 1..Len(selected) :
       p.hasTags /\ ArrayIncludes(p.tags, selected[i])

\* new Date("YYYY-MM-DD").getTime() of a valid calendar date: the UTC
\* midnight of that day, counted here in days from the epoch (86400000 ms
\* each) because the sort reads only the sign of a difference of two times
IsLeapYear(y) == (y % 4 = 0 /\ y % 100 # 0) \/ y % 400 = 0

DaysBeforeYear(y) ==
  365 * (y - 1970) + ((y - 1969) \div 4) - ((y - 1901) \div 100)
    + ((y - 1601) \div 400)

DaysBeforeMonth(y, m) ==
  LET cumulative == <<0, 31, 59, 90, 120, 151, 181, 212, 243, 273, 304, 334>>
  IN cumulative[m] + (IF m > 2 /\ IsLeapYear(y) THEN 1 ELSE 0)

GetTime(date) ==
  DaysBeforeYear(date.y) + DaysBeforeMonth(date.y, date.m) + (date.d - 1)

\* String.prototype.localeCompare: letters first, ignoring case; between
\* strings with the same letters, lower case sorts before upper case
RECURSIVE LexCompare(_, _, _)
LexCompare(s, t, rank) ==
  IF s = <<>> /\ t = <<>> THEN 0
  ELSE IF s = <<>> THEN 0 - 1
  ELSE IF t = <<>> THEN 1
  ELSE IF rank[Head(s)] < rank[Head(t)] THEN 0 - 1
  ELSE IF rank[Head(s)] > rank[Head(t)] THEN 1
  ELSE LexCompare(Tail(s), Tail(t), rank)

LetterRank == [c \in {"a", "A", "b", "B"} |-> IF LowerChar(c) = "a" THEN 0 ELSE 1]

CaseRank == [c \in {"a", "A", "b", "B"} |-> IF LowerChar(c) = c THEN 0 ELSE 1]

LocaleCompare(s, t) ==
  IF LexCompare(s, t, LetterRank) # 0
    THEN LexCompare(s, t, LetterRank)
    ELSE LexCompare(s, t, CaseRank)

\* Mutation of Compare: the two date orders are exchanged
CompareDatesSwapped(a, b, order) ==
  CASE order = "date-asc" -> GetTime(b.date) - GetTime(a.date)
    [] order = "title-asc" -> LocaleCompare(a.title, b.title)
    [] order = "title-desc" -> LocaleCompare(b.title, a.title)
    [] OTHER -> GetTime(a.date) - GetTime(b.date)

\* Mutation of Compare: 'title-desc' compares as 'title-asc' does
CompareTitleOneWay(a, b, order) ==
  CASE order = "date-asc" -> GetTime(a.date) - GetTime(b.date)
    [] order = "title-asc" -> LocaleCompare(a.title, b.title)
    [] order = "title-desc" -> LocaleCompare(a.title, b.title)
    [] OTHER -> GetTime(b.date) - GetTime(a.date)

\* Mutation of Compare: a comparator that never answers 0, equal keys
\* compare as 'a after b'
CompareNoTie(a, b, order) ==
  LET c == CASE order = "date-asc" -> GetTime(a.date) - GetTime(b.date)
             [] order = "title-asc" -> LocaleCompare(a.title, b.title)
             [] order = "title-desc" -> LocaleCompare(b.title, a.title)
             [] OTHER -> GetTime(b.date) - GetTime(a.date)
  IN IF c = 0 THEN 1 ELSE c

\* The comparator passed to sort
Compare(a, b, order) ==
  CASE order = "date-asc" -> GetTime(a.date) - GetTime(b.date)
    [] order = "title-asc" -> LocaleCompare(a.title, b.title)
    [] order = "title-desc" -> LocaleCompare(b.title, a.title)
    [] OTHER -> GetTime(b.date) - GetTime(a.date)

\* Array.prototype.sort(comparator): a stable sort
RECURSIVE InsertSorted(_, _, _)
InsertSorted(sorted, x, order) ==
  IF sorted = <<>> THEN <<x>>
  ELSE IF Compare(sorted[Len(sorted)], x, order) <= 0 THEN Append(sorted, x)
  ELSE Append(InsertSorted(SubSeq(sorted, 1, Len(sorted) - 1), x, order),
              sorted[Len(sorted)])

RECURSIVE SortProjects(_, _)
SortProjects(list, order) ==
  IF list = <<>> THEN <<>>
  ELSE InsertSorted(SortProjects(SubSeq(list, 1, Len(list) - 1), order),
                    list[Len(list)], order)

\* The filteredProjects memo (Array.prototype.filter is SelectSeq)
FilteredProjects(all, t, term, selected, order) ==
  LET byType == SelectSeq(all, LAMBDA p : MatchesType(p, t))
      bySearch == SelectSeq(byType, LAMBDA p : MatchesSearch(p, term))
      byTags == SelectSeq(bySearch, LAMBDA p : MatchesTags(p, selected))
  IN SortProjects(byTags, order)

\* UTF-16 code units of the alphabet
CodeUnit == [c \in {"a", "A", "b", "B"} |->
               CASE c = "A" -> 65 [] c = "B" -> 66 [] c = "a" -> 97
                 [] OTHER -> 98]

\* Array.prototype.sort() without a comparator: strings in the order of
\* their UTF-16 code units
RECURSIVE InsertString(_, _)
InsertString(sorted, x) ==
  IF sorted = <<>> THEN <<x>>
  ELSE IF LexCompare(sorted[Len(sorted)], x, CodeUnit) <= 0
    THEN Append(sorted, x)
  ELSE Append(InsertString(SubSeq(sorted, 1, Len(sorted) - 1), x),
              sorted[Len(sorted)])

RECURSIVE SortStrings(_)
SortStrings(list) ==
  IF list = <<>> THEN <<>>
  ELSE InsertString(SortStrings(SubSeq(list, 1, Len(list) - 1)),
                    list[Len(list)])

\* tags.add(t) for each tag of each project in turn: a Set keeps the first
\* insertion of a value and iterates in insertion order
RECURSIVE AddAll(_, _)
AddAll(seen, list) ==
  IF list = <<>> THEN seen
  ELSE AddAll(IF ArrayIncludes(seen, Head(list)) THEN seen
              ELSE Append(seen, Head(list)),
              Tail(list))

RECURSIVE CollectTags(_, _)
CollectTags(seen, list) ==
  IF list = <<>> THEN seen
  ELSE CollectTags(IF Head(list).hasTags THEN AddAll(seen, Head(list).tags)
                   ELSE seen,
                   Tail(list))

\* The allTags memo
AllTags(all, t) ==
  SortStrings(CollectTags(<<>>, SelectSeq(all, LAMBDA p : MatchesType(p, t))))

\* Bound: the longest catalogue
MaxProjects == 3

\* The records a catalogue is drawn from (id is the position in this list)
Day(y, m, d) == [y |-> y, m |-> m, d |-> d]

Pool == <<
  [title |-> <<"A", "b">>, type |-> "Frontend", hasTags |-> TRUE,
   tags |-> << <<"a">> >>, date |-> Day(2024, 1, 1)],
  [title |-> <<"a">>, type |-> "Frontend", hasTags |-> TRUE,
   tags |-> << <<"b">> >>, date |-> Day(2024, 6, 1)],
  [title |-> <<"A", "b">>, type |-> "Frontend", hasTags |-> TRUE,
   tags |-> << <<"a">>, <<"b">> >>, date |-> Day(2024, 6, 1)],
  [title |-> <<"b">>, type |-> "Frontend", hasTags |-> FALSE,
   tags |-> <<>>, date |-> Day(2024, 2, 29)],
  [title |-> <<"B", "A">>, type |-> "UX Design", hasTags |-> TRUE,
   tags |-> <<>>, date |-> Day(2023, 12, 31)],
  [title |-> <<"a">>, type |-> "UX Design", hasTags |-> TRUE,
   tags |-> << <<"B">>, <<"a">> >>, date |-> Day(2023, 12, 31)]
>>

PoolProject(i) ==
  [id |-> i, title |-> Pool[i].title, type |-> Pool[i].type,
   hasTags |-> Pool[i].hasTags, tags |-> Pool[i].tags, date |-> Pool[i].date]

\* The catalogues: lists of at most MaxProjects records with distinct ids
Catalogues ==
  UNION { { [k \in 1..n |-> PoolProject(pick[k])] :
              pick \in { f \in [1..n -> 1..Len(Pool)] :
                           \A i, j \in 1..n : i # j => f[i] # f[j] } } :
          n \in 0..MaxProjects }

\* Every tag of the pool
PoolTags == UNION { Range(Pool[i].tags) : i \in 1..Len(Pool) }

\* What a visitor types into the search box
SearchTerms == { <<>>, <<"a">>, <<"B">>, <<"a", "B">> }

\* The render of PortfolioPage: the memo is recomputed from props and state
Render ==
  /\ filteredProjects' =
       FilteredProjects(projects', type', searchTerm', selectedTags',
                        sortOrder')
  /\ allTags' = AllTags(projects', type')

\* PortfolioPage is mounted with its initial state
FInit ==
  /\ projects \in Catalogues
  /\ type \in ProjectTypes
  /\ searchTerm = <<>>
  /\ selectedTags = <<>>
  /\ sortOrder = "date-desc"
  /\ filteredProjects =
       FilteredProjects(projects, type, searchTerm, selectedTags, sortOrder)
  /\ allTags = AllTags(projects, type)

\* onChange of the search box: setSearchTerm(e.target.value)
SetSearchTerm(term) ==
  /\ searchTerm' = term
  /\ UNCHANGED <<projects, type, selectedTags, sortOrder>>
  /\ Render
  /\ UNCHANGED <<lbVars, appVars>>

\* toggleTag(tag), from the click of a rendered tag chip
ToggleTag(tag) ==
  /\ ArrayIncludes(allTags, tag)
  /\ selectedTags' =
       IF ArrayIncludes(selectedTags, tag)
         THEN SelectSeq(selectedTags, LAMBDA t : t # tag)
         ELSE Append(selectedTags, tag)
  /\ UNCHANGED <<projects, type, searchTerm, sortOrder>>
  /\ Render
  /\ UNCHANGED <<lbVars, appVars>>

\* A sort menu button: setSortOrder(order)
SetSortOrder(order) ==
  /\ sortOrder' = order
  /\ UNCHANGED <<projects, type, searchTerm, selectedTags>>
  /\ Render
  /\ UNCHANGED <<lbVars, appVars>>

\* The header switches between the Frontend and UX Design pages: renderPage
\* returns a PortfolioPage at the same position, so React keeps the instance
\* and its state and only the type prop changes
SwitchType(t) ==
  /\ t # type
  /\ type' = t
  /\ UNCHANGED <<projects, searchTerm, selectedTags, sortOrder>>
  /\ Render
  /\ UNCHANGED <<lbVars, appVars>>

\* PortfolioPage is unmounted (About page, login page or a project detail
\* view is shown) and later mounted again with fresh state
RemountPortfolioPage(t) ==
  /\ type' = t
  /\ searchTerm' = <<>>
  /\ selectedTags' = <<>>
  /\ sortOrder' = "date-desc"
  /\ UNCHANGED projects
  /\ Render
  /\ UNCHANGED <<lbVars, appVars>>

\* ------------------------------------------------------------------------
\* Store and session (App, AdminLogin, AdminDashboard)
\* ------------------------------------------------------------------------
\* A storage item is <<>> when the key is absent and <<text>> when present;
\* a text is a sequence of characters.

\* Bound: the longest project list of the store
MaxStore == 3

\* Bound: timers of the password message not yet fired
MaxTimers == 1

\* useLocalStorage<string>('admin-password', '0000')
DefaultPassword == <<"0", "0", "0", "0">>

\* newPassword.length < 4
MinPasswordLength == 4

\* sessionStorage.setItem('admin-logged-in', 'true')
LoggedInText == <<"t", "r", "u", "e">>

Quote == "\""

\* JSON.stringify of a string without characters to escape
JsonStringify(text) == <<Quote>> \o text \o <<Quote>>

\* JSON.parse succeeds on a text that is one string literal; the other JSON
\* values (numbers, objects, ...) are not among the texts of the model
JsonParses(text) ==
  /\ Len(text) >= 2
  /\ text[1] = Quote
  /\ text[Len(text)] = Quote
  /\ \A i \in 2..(Len(text) - 1) : text[i] # Quote

JsonParse(text) == SubSeq(text, 2, Len(text) - 1)

\* The initial value of useLocalStorage: the parsed item, and initialValue
\* when the key is absent, the item is the empty text or JSON.parse throws
ReadStored(item, initialValue) ==
  IF item = <<>> \/ item[1] = <<>> THEN initialValue
  ELSE IF JsonParses(item[1]) THEN JsonParse(item[1])
  ELSE initialValue

\* !!sessionStorage.getItem('admin-logged-in')
ReadLoggedIn(item) == item # <<>> /\ item[1] # <<>>

NoProject == [kind |-> "null"]

NewProject == [kind |-> "new"]

AppLast(op, arg) == [op |-> op, arg |-> arg]

\* Array.prototype.findIndex(p => p.id === id), counted from 1; 0 is -1
FindIndex(list, id) ==
  IF \E i \in 1..Len(list) : list[i].id = id
    THEN CHOOSE i \in 1..Len(list) :
           list[i].id = id /\ \A j \in 1..(i - 1) : list[j].id # id
    ELSE 0

\* The selectedProject memo: projects.find(p => p.id === selectedProjectId)
HasSelectedProject == FindIndex(projects, selectedProjectId) # 0

SelectedProject == projects[FindIndex(projects, selectedProjectId)]

\* Mutation of Screen: the dashboard is shown to whoever opens the login
\* page
ScreenAdminOpen ==
  IF isLoading THEN "Loading"
  ELSE IF HasSelectedProject THEN "ProjectDetail"
  ELSE IF loggedIn \/ activePage = "AdminLogin" THEN "AdminDashboard"
  ELSE IF activePage \in {"UX Design", "About"} THEN activePage
  ELSE "Frontend"

\* What renderPage returns
Screen ==
  IF isLoading THEN "Loading"
  ELSE IF HasSelectedProject THEN "ProjectDetail"
  ELSE IF loggedIn THEN "AdminDashboard"
  ELSE IF activePage \in {"UX Design", "About", "AdminLogin"} THEN activePage
  ELSE "Frontend"

\* The dashboard's list view with the form closed and no modal open: the
\* modal's overlay covers the page
ListView ==
  /\ Screen = "AdminDashboard"
  /\ editingProject.kind = "null"
  /\ projectToDelete.kind = "null"

\* The confirmation modal is rendered
ModalOpen ==
  /\ Screen = "AdminDashboard"
  /\ editingProject.kind = "null"
  /\ projectToDelete.kind = "project"

\* The first render of App and its mount effects: the catalogue request is
\* sent, useLocalStorage writes its value back, and a restored session
\* switches to the admin page
AppStart(pwItem, sessItem) ==
  [isLoading |-> TRUE,
   adminPassword |-> ReadStored(pwItem, DefaultPassword),
   passwordItem |-> <<JsonStringify(ReadStored(pwItem, DefaultPassword))>>,
   loggedIn |-> ReadLoggedIn(sessItem),
   sessionItem |-> sessItem,
   activePage |-> IF ReadLoggedIn(sessItem) THEN "Admin" ELSE "Frontend"]

\* What local storage may hold under 'admin-password' when the page is
\* opened: nothing, a password saved by an earlier visit, or a text that is
\* not JSON
StoredPasswordItems ==
  { <<>>, <<JsonStringify(<<"a", "a", "a", "a">>)>>, << <<"a">> >> }

\* The catalogue the server publishes
Published == <<PoolProject(1), PoolProject(5), PoolProject(2)>>

ServerCatalogues ==
  { SubSeq(Published, 1, n) :
      n \in 0..(IF MaxStore < Len(Published) THEN MaxStore
                ELSE Len(Published)) }

\* The state of App that the detail view and the portfolio page do not read
AppIdle ==
  /\ isLoading = FALSE
  /\ fetchPc = "done"
  /\ fetches = 1
  /\ adminPassword = DefaultPassword
  /\ passwordItem = <<JsonStringify(DefaultPassword)>>
  /\ loggedIn = FALSE
  /\ sessionItem = <<>>
  /\ activePage = "Frontend"
  /\ selectedProjectId = Null
  /\ loginError = ""
  /\ editingProject = NoProject
  /\ projectToDelete = NoProject
  /\ passwordMessage = ""
  /\ messageTimers = 0
  /\ appLast = AppLast("none", <<>>)

loadVars == <<isLoading, fetchPc, fetches>>

passwordVars == <<adminPassword, passwordItem>>

sessionVars == <<loggedIn, sessionItem>>

dashboardVars == <<editingProject, projectToDelete, passwordMessage,
                   messageTimers>>

\* AdminLogin keeps its error while it stays mounted and starts without one
LoginFormRendered ==
  loginError' =
    IF Screen = "AdminLogin" /\ Screen' = "AdminLogin" THEN loginError ELSE ""

\* A fresh AdminDashboard; the timers of an unmounted one do nothing
DashboardMounted ==
  /\ editingProject' = NoProject
  /\ projectToDelete' = NoProject
  /\ passwordMessage' = ""
  /\ messageTimers' = 0

\* The page is opened in a new tab: session storage is empty
AppInit ==
  /\ \E pwItem \in StoredPasswordItems :
       /\ adminPassword = AppStart(pwItem, <<>>).adminPassword
       /\ passwordItem = AppStart(pwItem, <<>>).passwordItem
       /\ loggedIn = AppStart(pwItem, <<>>).loggedIn
       /\ sessionItem = AppStart(pwItem, <<>>).sessionItem
       /\ activePage = AppStart(pwItem, <<>>).activePage
  /\ isLoading = TRUE
  /\ fetchPc = "fetch"
  /\ fetches = 1
  /\ selectedProjectId = Null
  /\ loginError = ""
  /\ editingProject = NoProject
  /\ projectToDelete = NoProject
  /\ passwordMessage = ""
  /\ messageTimers = 0
  /\ appLast = AppLast("start", <<>>)

\* The visitor reloads the page: App is constructed again from the two
\* storages, and a response to the old request reaches nobody
Restart ==
  /\ projects' = <<>>
  /\ adminPassword' = AppStart(passwordItem, sessionItem).adminPassword
  /\ passwordItem' = AppStart(passwordItem, sessionItem).passwordItem
  /\ loggedIn' = AppStart(passwordItem, sessionItem).loggedIn
  /\ sessionItem' = AppStart(passwordItem, sessionItem).sessionItem
  /\ activePage' = AppStart(passwordItem, sessionItem).activePage
  /\ isLoading' = TRUE
  /\ fetchPc' = "fetch"
  /\ fetches' = 1
  /\ selectedProjectId' = Null
  /\ loginError' = ""
  /\ DashboardMounted
  /\ appLast' = AppLast("Restart", <<>>)
  /\ UNCHANGED <<lbVars, pageVars>>

\* Mutation of CatchAndFinally: the request is sent again
CatchAndRetry(op) ==
  /\ projects' = <<>>
  /\ fetchPc' = "fetch"
  /\ fetches' = fetches + 1
  /\ appLast' = AppLast(op, <<>>)
  /\ UNCHANGED <<isLoading, passwordVars, sessionVars, activePage,
                 selectedProjectId, dashboardVars>>
  /\ LoginFormRendered
  /\ UNCHANGED <<lbVars, pageVars>>

\* .catch and .finally of the startup request
CatchAndFinally(op) ==
  /\ projects' = <<>>
  /\ isLoading' = FALSE
  /\ fetchPc' = "done"
  /\ appLast' = AppLast(op, <<>>)
  /\ UNCHANGED <<fetches, passwordVars, sessionVars, activePage,
                 selectedProjectId, dashboardVars>>
  /\ LoginFormRendered
  /\ UNCHANGED <<lbVars, pageVars>>

\* fetch() rejects: the request fails at network level
FetchFails ==
  /\ fetchPc = "fetch"
  /\ CatchAndFinally("FetchFails")

\* The response arrives with a status outside 200..299: the first then throws
ResponseNotOk ==
  /\ fetchPc = "fetch"
  /\ CatchAndFinally("ResponseNotOk")

\* The response arrives with a success status: response.json() reads the body
ResponseOk ==
  /\ fetchPc = "fetch"
  /\ fetchPc' = "body"
  /\ appLast' = AppLast("ResponseOk", <<>>)
  /\ UNCHANGED <<projects, isLoading, fetches, passwordVars, sessionVars,
                 activePage, selectedProjectId, loginError, dashboardVars>>
  /\ UNCHANGED <<lbVars, pageVars>>

\* response.json() rejects: the body is not JSON
BodyUnparsable ==
  /\ fetchPc = "body"
  /\ CatchAndFinally("BodyUnparsable")

\* response.json() resolves with the catalogue: setProjects(data), .finally
BodyParsed(data) ==
  /\ fetchPc = "body"
  /\ projects' = data
  /\ isLoading' = FALSE
  /\ fetchPc' = "done"
  /\ appLast' = AppLast("BodyParsed", <<data>>)
  /\ UNCHANGED <<fetches, passwordVars, sessionVars, activePage,
                 selectedProjectId, dashboardVars>>
  /\ LoginFormRendered
  /\ UNCHANGED <<lbVars, pageVars>>

\* A click in the header, which is hidden while a project is open
SetActivePage(page) ==
  /\ ~HasSelectedProject
  /\ activePage' = page
  /\ appLast' = AppLast("SetActivePage", <<>>)
  /\ UNCHANGED <<projects, loadVars, passwordVars, sessionVars,
                 selectedProjectId, dashboardVars>>
  /\ LoginFormRendered
  /\ UNCHANGED <<lbVars, pageVars>>

\* A click on a project card of the portfolio page shown
SelectProject(id) ==
  /\ Screen \in ProjectTypes
  /\ \E i \in 1..Len(projects) :
       projects[i].id = id /\ projects[i].type = Screen
  /\ selectedProjectId' = id
  /\ appLast' = AppLast("SelectProject", <<>>)
  /\ UNCHANGED <<projects, loadVars, passwordVars, sessionVars, activePage,
                 dashboardVars>>
  /\ LoginFormRendered
  /\ UNCHANGED <<lbVars, pageVars>>

\* onClose of the detail view
CloseProject ==
  /\ Screen = "ProjectDetail"
  /\ selectedProjectId' = Null
  /\ appLast' = AppLast("CloseProject", <<>>)
  /\ UNCHANGED <<projects, loadVars, passwordVars, sessionVars, activePage,
                 dashboardVars>>
  /\ LoginFormRendered
  /\ UNCHANGED <<lbVars, pageVars>>

\* JavaScript's % on a non-negative left operand
Mod(a, b) == a % b

\* Mutation of NavigateProject: the projects of every type are stepped through
NavigateProjectAnyType(list, id, direction) ==
  IF FindIndex(list, id) = 0 THEN id
  ELSE LET currentIndex == FindIndex(list, id) - 1
           nextIndex ==
             IF direction = "next"
               THEN Mod(currentIndex + 1, Len(list))
               ELSE Mod(currentIndex - 1 + Len(list), Len(list))
       IN list[nextIndex + 1].id

\* The id handleNavigateProject selects for a store and a selected id; the
\* id itself where the handler returns early
NavigateProject(list, id, direction) ==
  IF FindIndex(list, id) = 0 THEN id
  ELSE LET selectedProject == list[FindIndex(list, id)]
           currentTypeProjects ==
             SelectSeq(list, LAMBDA p : p.type = selectedProject.type)
           currentIndex ==
             FindIndex(currentTypeProjects, selectedProject.id) - 1
           nextIndex ==
             IF direction = "next"
               THEN Mod(currentIndex + 1, Len(currentTypeProjects))
               ELSE Mod(currentIndex - 1 + Len(currentTypeProjects),
                        Len(currentTypeProjects))
       IN IF currentIndex = 0 - 1 THEN id
          ELSE currentTypeProjects[nextIndex + 1].id

\* handleNavigateProject(direction): the handler of the current render,
\* which the detail view's buttons call
HandleNavigateProject(direction) ==
  /\ ~isLoading
  /\ selectedProjectId' =
       NavigateProject(projects, selectedProjectId, direction)
  /\ appLast' = AppLast("HandleNavigateProject", <<direction>>)
  /\ UNCHANGED <<projects, loadVars, passwordVars, sessionVars, activePage,
                 dashboardVars>>
  /\ LoginFormRendered
  /\ UNCHANGED <<lbVars, pageVars>>

\* Mutation of HandleLoginSubmit: the password is compared with the default
HandleLoginSubmitDefault(password) ==
  /\ Screen = "AdminLogin"
  /\ IF password = DefaultPassword
       THEN /\ sessionItem' = <<LoggedInText>>
            /\ loggedIn' = TRUE
            /\ activePage' = "Admin"
            /\ selectedProjectId' = Null
            /\ loginError' = ""
       ELSE /\ loginError' = "Incorrect password."
            /\ UNCHANGED <<sessionVars, activePage, selectedProjectId>>
  /\ appLast' = AppLast("HandleLoginSubmit", <<password>>)
  /\ DashboardMounted
  /\ UNCHANGED <<projects, loadVars, passwordVars>>
  /\ UNCHANGED <<lbVars, pageVars>>

\* Mutation of HandleLoginSubmit: the session flag is not written
HandleLoginSubmitNoFlag(password) ==
  /\ Screen = "AdminLogin"
  /\ IF password = adminPassword
       THEN /\ loggedIn' = TRUE
            /\ activePage' = "Admin"
            /\ selectedProjectId' = Null
            /\ loginError' = ""
            /\ UNCHANGED sessionItem
       ELSE /\ loginError' = "Incorrect password."
            /\ UNCHANGED <<sessionVars, activePage, selectedProjectId>>
  /\ appLast' = AppLast("HandleLoginSubmit", <<password>>)
  /\ DashboardMounted
  /\ UNCHANGED <<projects, loadVars, passwordVars>>
  /\ UNCHANGED <<lbVars, pageVars>>

\* AdminLogin.handleSubmit with the password typed, and on success the
\* effect of App on loggedIn
HandleLoginSubmit(password) ==
  /\ Screen = "AdminLogin"
  /\ IF password = adminPassword
       THEN /\ sessionItem' = <<LoggedInText>>
            /\ loggedIn' = TRUE
            /\ activePage' = "Admin"
            /\ selectedProjectId' = Null
            /\ loginError' = ""
       ELSE /\ loginError' = "Incorrect password."
            /\ UNCHANGED <<sessionVars, activePage, selectedProjectId>>
  /\ appLast' = AppLast("HandleLoginSubmit", <<password>>)
  /\ DashboardMounted
  /\ UNCHANGED <<projects, loadVars, passwordVars>>
  /\ UNCHANGED <<lbVars, pageVars>>

\* handleLogout, and the effect of App on loggedIn
HandleLogout ==
  /\ ListView
  /\ sessionItem' = <<>>
  /\ loggedIn' = FALSE
  /\ activePage' = IF activePage = "Admin" THEN "Frontend" ELSE activePage
  /\ loginError' = ""
  /\ DashboardMounted
  /\ appLast' = AppLast("HandleLogout", <<>>)
  /\ UNCHANGED <<projects, loadVars, passwordVars, selectedProjectId>>
  /\ UNCHANGED <<lbVars, pageVars>>

\* The add button: setEditingProject('new')
OpenNewForm ==
  /\ ListView
  /\ editingProject' = NewProject
  /\ appLast' = AppLast("OpenNewForm", <<>>)
  /\ UNCHANGED <<projects, loadVars, passwordVars, sessionVars, activePage,
                 selectedProjectId, loginError, projectToDelete,
                 passwordMessage, messageTimers>>
  /\ UNCHANGED <<lbVars, pageVars>>

\* The edit button of the row at an index: setEditingProject(p)
OpenEditForm(index) ==
  /\ ListView
  /\ index < Len(projects)
  /\ editingProject' = [kind |-> "project", project |-> projects[index + 1]]
  /\ appLast' = AppLast("OpenEditForm", <<>>)
  /\ UNCHANGED <<projects, loadVars, passwordVars, sessionVars, activePage,
                 selectedProjectId, loginError, projectToDelete,
                 passwordMessage, messageTimers>>
  /\ UNCHANGED <<lbVars, pageVars>>

\* onCancel of the form
CancelForm ==
  /\ Screen = "AdminDashboard"
  /\ editingProject.kind # "null"
  /\ editingProject' = NoProject
  /\ appLast' = AppLast("CancelForm", <<>>)
  /\ UNCHANGED <<projects, loadVars, passwordVars, sessionVars, activePage,
                 selectedProjectId, loginError, projectToDelete,
                 passwordMessage, messageTimers>>
  /\ UNCHANGED <<lbVars, pageVars>>

\* What the form's fields hold when it is submitted
FormInputs ==
  { [title |-> <<"B">>, type |-> "UX Design", hasTags |-> TRUE,
     tags |-> << <<"a">> >>] }

\* new Date().toISOString().split('T')[0] on the day of the session
Today == Day(2024, 12, 25)

\* Date.now().toString(): an id no project has, or one that a project of
\* the published catalogue already has
NewIds == {1, Len(Pool) + 1}

\* ProjectForm.handleSubmit: the fields, with the id and date of the project
\* edited or a new id and today's date
FinalProject(form, edited, now) ==
  [id |-> IF edited.kind = "project" THEN edited.project.id ELSE now,
   title |-> form.title, type |-> form.type, hasTags |-> form.hasTags,
   tags |-> form.tags,
   date |-> IF edited.kind = "project" THEN edited.project.date ELSE Today]

\* Mutation of SaveProject: no look-up of the id, the record is prepended
SaveProjectPrepend(prevProjects, project) == <<project>> \o prevProjects

\* The updater of handleSaveProject
SaveProject(prevProjects, project) ==
  IF FindIndex(prevProjects, project.id) # 0
    THEN [prevProjects EXCEPT ![FindIndex(prevProjects, project.id)] = project]
    ELSE <<project>> \o prevProjects

\* The form is submitted: ProjectForm.handleSubmit, then handleSaveProject
HandleSaveProject(form, now) ==
  /\ Screen = "AdminDashboard"
  /\ editingProject.kind # "null"
  /\ \/ FindIndex(projects, FinalProject(form, editingProject, now).id) # 0
     \/ Len(projects) < MaxStore
  /\ projects' = SaveProject(projects, FinalProject(form, editingProject, now))
  /\ editingProject' = NoProject
  /\ appLast' =
       AppLast("HandleSaveProject",
               <<editingProject.kind,
                 FindIndex(projects,
                           FinalProject(form, editingProject, now).id)>>)
  /\ UNCHANGED <<loadVars, passwordVars, sessionVars, activePage,
                 selectedProjectId, loginError, projectToDelete,
                 passwordMessage, messageTimers>>
  /\ UNCHANGED <<lbVars, pageVars>>

\* The delete button of the row at an index: setProjectToDelete(p)
SetProjectToDelete(index) ==
  /\ ListView
  /\ index < Len(projects)
  /\ projectToDelete' = [kind |-> "project", project |-> projects[index + 1]]
  /\ appLast' = AppLast("SetProjectToDelete", <<>>)
  /\ UNCHANGED <<projects, loadVars, passwordVars, sessionVars, activePage,
                 selectedProjectId, loginError, editingProject,
                 passwordMessage, messageTimers>>
  /\ UNCHANGED <<lbVars, pageVars>>

\* onClose of the confirmation modal
CloseDeleteModal ==
  /\ ModalOpen
  /\ projectToDelete' = NoProject
  /\ appLast' = AppLast("CloseDeleteModal", <<>>)
  /\ UNCHANGED <<projects, loadVars, passwordVars, sessionVars, activePage,
                 selectedProjectId, loginError, editingProject,
                 passwordMessage, messageTimers>>
  /\ UNCHANGED <<lbVars, pageVars>>

\* onConfirm of the modal: handleDeleteProject(projectToDelete.id)
HandleDeleteProject ==
  /\ ModalOpen
  /\ projects' =
       SelectSeq(projects, LAMBDA p : p.id # projectToDelete.project.id)
  /\ projectToDelete' = NoProject
  /\ appLast' = AppLast("HandleDeleteProject", <<>>)
  /\ UNCHANGED <<loadVars, passwordVars, sessionVars, activePage,
                 selectedProjectId, loginError, editingProject,
                 passwordMessage, messageTimers>>
  /\ UNCHANGED <<lbVars, pageVars>>

\* Array.prototype.splice(index, 0, x) on a copy, index counted from 0
InsertAt(list, index, x) ==
  IF index >= Len(list) THEN Append(list, x)
  ELSE SubSeq(list, 1, index) \o <<x>> \o SubSeq(list, index + 1, Len(list))

\* Mutation of MoveItem: the dragged and the hovered record change places
MoveItemSwap(currentProjects, dragIndex, hoverIndex) ==
  [currentProjects EXCEPT
     ![dragIndex + 1] = currentProjects[hoverIndex + 1],
     ![hoverIndex + 1] = currentProjects[dragIndex + 1]]

\* The updater of handleDragSort, for a dragIndex inside the list
MoveItem(currentProjects, dragIndex, hoverIndex) ==
  InsertAt(RemoveAt(currentProjects, dragIndex + 1), hoverIndex,
           currentProjects[dragIndex + 1])

\* onDragEnd of a row: handleDragSort with what the two refs hold.  The
\* refs are written by onDragStart and onDragEnter of the rows rendered
\* during the drag, and reset here.
HandleDragSort(dragIndex, hoverIndex) ==
  /\ ListView
  /\ dragIndex = Null \/ dragIndex < Len(projects)
  /\ hoverIndex = Null \/ hoverIndex < Len(projects)
  /\ projects' =
       IF dragIndex = Null \/ hoverIndex = Null \/ dragIndex = hoverIndex
         THEN projects
         ELSE MoveItem(projects, dragIndex, hoverIndex)
  /\ appLast' = AppLast("HandleDragSort", <<dragIndex, hoverIndex>>)
  /\ UNCHANGED <<loadVars, passwordVars, sessionVars, activePage,
                 selectedProjectId, loginError, dashboardVars>>
  /\ UNCHANGED <<lbVars, pageVars>>

\* What is typed into the password fields
PasswordsTyped ==
  { DefaultPassword, <<"a", "a", "a", "a">>, <<"a", "a", "a">> }

\* Mutation of HandleChangePassword: the length is not checked
HandleChangePasswordAnyLength(newPassword, confirmPassword) ==
  /\ ListView
  /\ IF newPassword # confirmPassword
       THEN /\ passwordMessage' = "Passwords do not match."
            /\ UNCHANGED <<passwordVars, messageTimers>>
       ELSE /\ messageTimers < MaxTimers
            /\ adminPassword' = newPassword
            /\ passwordItem' = <<JsonStringify(newPassword)>>
            /\ passwordMessage' = "Password changed successfully!"
            /\ messageTimers' = messageTimers + 1
  /\ appLast' = AppLast("HandleChangePassword",
                        <<newPassword, confirmPassword>>)
  /\ UNCHANGED <<projects, loadVars, sessionVars, activePage,
                 selectedProjectId, loginError, editingProject,
                 projectToDelete>>
  /\ UNCHANGED <<lbVars, pageVars>>

\* handleChangePassword with the two fields as typed; on success the effect
\* of useLocalStorage writes the new value
HandleChangePassword(newPassword, confirmPassword) ==
  /\ ListView
  /\ IF newPassword # confirmPassword
       THEN /\ passwordMessage' = "Passwords do not match."
            /\ UNCHANGED <<passwordVars, messageTimers>>
       ELSE IF Len(newPassword) < MinPasswordLength
       THEN /\ passwordMessage' =
                 "Password must be at least 4 characters long."
            /\ UNCHANGED <<passwordVars, messageTimers>>
       ELSE /\ messageTimers < MaxTimers
            /\ adminPassword' = newPassword
            /\ passwordItem' =
                 IF newPassword # adminPassword
                   THEN <<JsonStringify(newPassword)>>
                   ELSE passwordItem
            /\ passwordMessage' = "Password changed successfully!"
            /\ messageTimers' = messageTimers + 1
  /\ appLast' = AppLast("HandleChangePassword",
                        <<newPassword, confirmPassword>>)
  /\ UNCHANGED <<projects, loadVars, sessionVars, activePage,
                 selectedProjectId, loginError, editingProject,
                 projectToDelete>>
  /\ UNCHANGED <<lbVars, pageVars>>

\* The timer set by a successful change fires: setPasswordMessage('')
PasswordMessageTimer ==
  /\ messageTimers > 0
  /\ messageTimers' = messageTimers - 1
  /\ passwordMessage' = ""
  /\ appLast' = AppLast("PasswordMessageTimer", <<>>)
  /\ UNCHANGED <<projects, loadVars, passwordVars, sessionVars, activePage,
                 selectedProjectId, loginError, editingProject,
                 projectToDelete>>
  /\ UNCHANGED <<lbVars, pageVars>>

\* No detail view exists while a portfolio page is shown
LbIdle ==
  /\ mounted = FALSE
  /\ galleryLen = 0
  /\ device = [isMobile |-> FALSE, fullscreenApi |-> TRUE, orientationApi |-> TRUE]
  /\ lightboxIndex = Null
  /\ fullscreenElement = FALSE
  /\ orientationLocked = FALSE
  /\ bodyOverflow = ""
  /\ calls = <<>>
  /\ fsEvents = 0
  /\ exitRequests = 0
  /\ openedAt = Null
  /\ nextStreak = 0
  /\ last = [op |-> "none", prev |-> Null, arg |-> Null]

\* No portfolio page exists while a detail view is shown
FIdle ==
  /\ projects = <<>>
  /\ type = "Frontend"
  /\ searchTerm = <<>>
  /\ selectedTags = <<>>
  /\ sortOrder = "date-desc"
  /\ filteredProjects = <<>>
  /\ allTags = <<>>

LbNext ==
  \/ \E index \in 0..(MaxGallery - 1) : OpenLightbox(index)
  \/ \E k \in 1..MaxCalls : FullscreenGranted(k)
  \/ \E k \in 1..MaxCalls : FullscreenRejected(k)
  \/ \E k \in 1..MaxCalls : LockGranted(k)
  \/ \E k \in 1..MaxCalls : LockRejected(k)
  \/ CloseLightbox
  \/ ExitFullscreenResolved
  \/ ExitFullscreenRejected
  \/ UserExitsFullscreen
  \/ HandleFullscreenChange
  \/ \E direction \in {"next", "prev"} :
       HandleLightboxNavigate(direction)
  \/ Unmount
  \/ Mount

\* The detail view of one selected project
LbSpecInit ==
  /\ LbInit
  /\ FIdle
  /\ AppIdle

LbSpec == LbSpecInit /\ [][LbNext]_vars

\* What the platform owes the page: a promise it returned settles one way or
\* the other, and a queued fullscreenchange event is dispatched. Nothing
\* obliges the user to act.
OpenPromiseSettles ==
  \E k \in 1..MaxCalls :
    \/ FullscreenGranted(k)
    \/ FullscreenRejected(k)
    \/ LockGranted(k)
    \/ LockRejected(k)

ExitPromiseSettles == ExitFullscreenResolved \/ ExitFullscreenRejected

\* The detail view under fair delivery of platform events
LbFairSpec ==
  /\ LbSpecInit
  /\ [][LbNext]_vars
  /\ WF_vars(OpenPromiseSettles)
  /\ WF_vars(ExitPromiseSettles)
  /\ WF_vars(HandleFullscreenChange)

FilterNext ==
  \/ \E term \in SearchTerms : SetSearchTerm(term)
  \/ \E tag \in PoolTags : ToggleTag(tag)
  \/ \E order \in SortOrders : SetSortOrder(order)
  \/ \E t \in ProjectTypes : SwitchType(t)
  \/ \E t \in ProjectTypes : RemountPortfolioPage(t)

\* The portfolio page of a loaded catalogue
FilterSpecInit ==
  /\ LbIdle
  /\ FInit
  /\ AppIdle

FilterSpec == FilterSpecInit /\ [][FilterNext]_vars

\* What happens with or without an admin: the startup load, the header, the
\* project pages, the login form, logout and a reload of the page
VisitNext ==
  \/ FetchFails
  \/ ResponseNotOk
  \/ ResponseOk
  \/ BodyUnparsable
  \/ \E data \in ServerCatalogues : BodyParsed(data)
  \/ \E page \in {"Frontend", "UX Design", "About", "AdminLogin"} :
       SetActivePage(page)
  \/ \E id \in 1..(Len(Pool) + 1) : SelectProject(id)
  \/ CloseProject
  \/ \E direction \in {"next", "prev"} : HandleNavigateProject(direction)
  \/ \E password \in PasswordsTyped : HandleLoginSubmit(password)
  \/ HandleLogout
  \/ Restart

\* The dashboard's project management
ManageNext ==
  \/ OpenNewForm
  \/ \E index \in 0..(MaxStore - 1) : OpenEditForm(index)
  \/ CancelForm
  \/ \E form \in FormInputs, now \in NewIds : HandleSaveProject(form, now)
  \/ \E index \in 0..(MaxStore - 1) : SetProjectToDelete(index)
  \/ CloseDeleteModal
  \/ HandleDeleteProject
  \/ \E dragIndex, hoverIndex \in {Null} \cup 0..(MaxStore - 1) :
       HandleDragSort(dragIndex, hoverIndex)

\* The dashboard's password form
PasswordNext ==
  \/ \E newPassword, confirmPassword \in PasswordsTyped :
       HandleChangePassword(newPassword, confirmPassword)
  \/ PasswordMessageTimer

\* A page opened in a new tab
AppSpecInit ==
  /\ LbIdle
  /\ FIdle
  /\ AppInit

StoreNext == VisitNext \/ ManageNext

\* The application with the store's administration
StoreSpec == AppSpecInit /\ [][StoreNext]_vars

SessionNext == VisitNext \/ PasswordNext

\* The application with the password's administration
SessionSpec == AppSpecInit /\ [][SessionNext]_vars

\* ------------------------------------------------------------------------
\* Properties of the lightbox controller
\* ------------------------------------------------------------------------

\* What the program holds, without the history variables
lbProgram == <<mounted, galleryLen, device, lightboxIndex, fullscreenElement,
               orientationLocked, bodyOverflow, calls, fsEvents, exitRequests>>

\* C1: the lightbox is closed, or open at an index of the gallery
C1_IndexInGallery ==
  lightboxIndex = Null \/ (0 <= lightboxIndex /\ lightboxIndex < galleryLen)

\* C1 witness: 'prev' has wrapped from the first to the last image
C1_Witness ==
  /\ last.op = "prev" /\ last.prev = 0
  /\ galleryLen > 1 /\ lightboxIndex = galleryLen - 1

\* C2: a close request made in fullscreen leaves the lightbox state alone and
\* only asks the platform to exit fullscreen; made outside fullscreen it
\* closes directly; and a mounted lightbox goes from open to closed only with
\* no fullscreen element present, by such a direct close or by the
\* fullscreenchange listener
C2_CloseRequestVsEffect ==
  [][ /\ last'.op = "close" =>
           IF fullscreenElement
             THEN /\ lightboxIndex' = lightboxIndex
                  /\ exitRequests' = exitRequests + 1
             ELSE /\ lightboxIndex' = Null
                  /\ exitRequests' = exitRequests
      /\ (lightboxIndex # Null /\ lightboxIndex' = Null /\ last'.op # "unmount") =>
           /\ ~fullscreenElement
           /\ last'.op \in {"close", "fullscreenchange"}
    ]_lbVars

\* C2 witness: close was requested in fullscreen, the lightbox is still open
\* and the exit request is pending
C2_Witness ==
  /\ last.op = "close" /\ fullscreenElement
  /\ lightboxIndex # Null /\ exitRequests > 0

\* C3: a fullscreenchange event dispatched while the lightbox is open and no
\* fullscreen element is present closes the lightbox and, on a touch device,
\* leaves the orientation unlocked; dispatched while the lightbox is closed it
\* changes nothing but the event queue
C3_FullscreenEndCloses ==
  [][ (last'.op = "fullscreenchange" /\ mounted) =>
        /\ (lightboxIndex # Null /\ ~fullscreenElement) =>
             /\ lightboxIndex' = Null
             /\ device.isMobile => ~orientationLocked'
        /\ lightboxIndex = Null =>
             UNCHANGED <<mounted, galleryLen, device, lightboxIndex,
                         fullscreenElement, orientationLocked, bodyOverflow,
                         calls, exitRequests>>
    ]_lbVars

\* C3 witness: on a touch device the user left fullscreen by a platform
\* gesture while the lightbox was open, and the listener has closed it
C3_Witness ==
  /\ last.op = "fullscreenchange" /\ last.prev # Null
  /\ device.isMobile /\ mounted /\ exitRequests = 0
  /\ lightboxIndex = Null /\ ~orientationLocked

\* The ways an openLightbox call of a mounted view ends
OpenDone == {"open:sync", "open:noLockApi", "open:fsRejected",
             "open:lockGranted", "open:lockRejected"}

\* C4: on a touch device, when an openLightbox(i) call of the mounted view
\* ends, the state is open(i), whether the platform requests were granted,
\* rejected or not available
C4_OpensWhateverThePlatformSays ==
  (device.isMobile /\ last.op \in OpenDone) =>
     (last.arg # Null /\ lightboxIndex = last.arg)

\* C4 witness: the fullscreen request was rejected and the lightbox is open
C4_Witness ==
  /\ device.isMobile /\ last.op = "open:fsRejected"
  /\ lightboxIndex = last.arg /\ ~fullscreenElement

\* C5: body scroll is suppressed exactly while the lightbox is open, and it is
\* restored when the view is torn down
C5_ScrollLock ==
  /\ (mounted /\ lightboxIndex # Null) => bodyOverflow = "hidden"
  /\ (~mounted \/ lightboxIndex = Null) => bodyOverflow = ""

\* C5 witness: the view was torn down while the lightbox was open in
\* fullscreen with an exit request pending
C5_Witness ==
  /\ last.op = "unmount" /\ last.prev # Null
  /\ exitRequests > 0 /\ fullscreenElement
  /\ ~mounted /\ bodyOverflow = ""

\* C6: 'next' moves open(i) to open((i+1) mod n), 'prev' moves it to
\* open((i-1+n) mod n), and after n times 'next' the index is the one opened
C6_NavigationCycles ==
  mounted =>
    /\ (last.op = "next" /\ last.prev # Null) =>
         lightboxIndex = IF last.prev = galleryLen - 1 THEN 0 ELSE last.prev + 1
    /\ (last.op = "prev" /\ last.prev # Null) =>
         lightboxIndex = IF last.prev = 0 THEN galleryLen - 1 ELSE last.prev - 1
    /\ (lightboxIndex # Null /\ nextStreak = galleryLen) =>
         lightboxIndex = openedAt

\* C6 witness: a gallery of several images has been cycled once by 'next'
C6_Witness ==
  /\ galleryLen > 1 /\ nextStreak = galleryLen
  /\ last.op = "next" /\ lightboxIndex = openedAt /\ lightboxIndex # Null

\* C7: 'next' or 'prev' on a closed lightbox, or with an empty gallery,
\* changes nothing
C7_NavigateClosedIsNoOp ==
  [][ (last'.op \in {"next", "prev"} /\ (lightboxIndex = Null \/ galleryLen = 0))
        => /\ lightboxIndex' = Null
           /\ UNCHANGED lbProgram
    ]_lbVars

\* C7 witness: 'next' was called on a closed lightbox of a non-empty gallery
C7_Witness ==
  /\ last.op = "next" /\ last.prev = Null
  /\ galleryLen > 0 /\ lightboxIndex = Null /\ mounted

\* ------------------------------------------------------------------------
\* Properties of the filter/sort derivation
\* ------------------------------------------------------------------------

\* Two characters are the same letter, whatever their case
SameLetter(c, d) ==
  c = d \/ <<c, d>> \in { <<"a", "A">>, <<"A", "a">>, <<"b", "B">>, <<"B", "b">> }

\* s occurs in text as a run of the same letters, case ignored
ContainsIgnoringCase(text, s) ==
  \E start \in 0..(Len(text) - Len(s)) :
    \A j \in 1..Len(s) : SameLetter(text[start + j], s[j])

\* The tags of a project, none when the record has no tag list
TagsOf(p) == IF p.hasTags THEN Range(p.tags) ELSE {}

\* A project passes the search: the term is empty, or occurs in its title or
\* in one of its tags
PassesSearch(p, s) ==
  \/ s = <<>>
  \/ ContainsIgnoringCase(p.title, s)
  \/ \E tag \in TagsOf(p) : ContainsIgnoringCase(tag, s)

\* A project passes the tag selection: it has every selected tag
PassesTags(p, selected) == Range(selected) \subseteq TagsOf(p)

Shown == Range(filteredProjects)

Occurrences(p) ==
  Cardinality({ i \in 1..Len(filteredProjects) : filteredProjects[i] = p })

\* C8: every project shown has the page's type, and every project of the
\* list with that type that passes the search and the tag selection is
\* shown exactly once
C8_TypeFilterExact ==
  /\ \A p \in Shown : p.type = type /\ p \in Range(projects)
  /\ \A p \in Range(projects) :
       (p.type = type /\ PassesSearch(p, searchTerm)
          /\ PassesTags(p, selectedTags)) => Occurrences(p) = 1

\* C8 witness: a search and a tag are set, a project of the page's type is
\* shown, and the list holds a project of the other type that passes both
C8_Witness ==
  /\ searchTerm # <<>> /\ selectedTags # <<>>
  /\ Shown # {}
  /\ \E p \in Range(projects) :
       /\ p.type # type
       /\ PassesSearch(p, searchTerm)
       /\ PassesTags(p, selectedTags)

\* C9: a project is shown only if the search term occurs, case ignored, in
\* its title or in one of its tags; an empty term removes nothing, also of
\* projects with an empty or a missing tag list
C9_SearchFilter ==
  /\ \A p \in Shown :
       \/ ContainsIgnoringCase(p.title, searchTerm)
       \/ \E tag \in TagsOf(p) : ContainsIgnoringCase(tag, searchTerm)
  /\ searchTerm = <<>> =>
       \A p \in Range(projects) :
         (p.type = type /\ PassesTags(p, selectedTags)) => p \in Shown

\* C9 witness: the term is in upper case and a shown project matches it only
\* through a tag in lower case, while another of the type is filtered out
C9_Witness ==
  /\ searchTerm = <<"B">>
  /\ \E p \in Shown :
       /\ ~ContainsIgnoringCase(p.title, searchTerm)
       /\ <<"b">> \in TagsOf(p)
  /\ \E p \in Range(projects) : p.type = type /\ p \notin Shown

\* C10: a project is shown only if it has every selected tag; an empty
\* selection removes nothing; a project without a tag list has no tags
C10_TagFilterAnd ==
  /\ \A p \in Shown : \A t \in Range(selectedTags) : t \in TagsOf(p)
  /\ \A p \in Shown : ~p.hasTags => selectedTags = <<>>
  /\ selectedTags = <<>> =>
       \A p \in Range(projects) :
         (p.type = type /\ PassesSearch(p, searchTerm)) => p \in Shown

\* C10 witness: two tags are selected, a project having both is shown and a
\* project of the type having only one of them is not
C10_Witness ==
  /\ Len(selectedTags) = 2
  /\ Shown # {}
  /\ \E p \in Range(projects) :
       /\ p.type = type /\ p \notin Shown
       /\ \E t \in Range(selectedTags) : t \in TagsOf(p)

\* One calendar date is not later than another: by year, month, then day
NotLater(d, e) ==
  \/ d.y < e.y
  \/ d.y = e.y /\ d.m < e.m
  \/ d.y = e.y /\ d.m = e.m /\ d.d <= e.d

NewestFirst(list) ==
  \A i, j \in 1..Len(list) : i < j => NotLater(list[j].date, list[i].date)

OldestFirst(list) ==
  \A i, j \in 1..Len(list) : i < j => NotLater(list[i].date, list[j].date)

\* What the page would show under another sort value
Matching(order) ==
  FilteredProjects(projects, type, searchTerm, selectedTags, order)

\* The store's projects that are shown, in the store's order
ShownInStoreOrder == SelectSeq(projects, LAMBDA p : p \in Shown)

\* C11: a freshly mounted page sorts newest first; under 'date-desc' and
\* under a sort value that is none of the four the dates shown never
\* increase down the list, under 'date-asc' they never decrease
C11_DateOrders ==
  /\ sortOrder = "date-desc"
  /\ [](/\ sortOrder = "date-desc" => NewestFirst(filteredProjects)
        /\ sortOrder = "date-asc" => OldestFirst(filteredProjects)
        /\ NewestFirst(Matching("unrecognised"))
        /\ Matching("unrecognised") = Matching("date-desc"))

\* C11 witness: oldest first has reordered three projects of the store, not
\* all of one date
C11_Witness ==
  /\ sortOrder = "date-asc"
  /\ Len(filteredProjects) = 3
  /\ filteredProjects # ShownInStoreOrder
  /\ filteredProjects[1].date # filteredProjects[3].date

Reverse(list) == [i \in 1..Len(list) |-> list[Len(list) + 1 - i]]

TitlesDistinct(list) ==
  \A i, j \in 1..Len(list) : i # j => list[i].title # list[j].title

StoreIndex(p) == CHOOSE i \in 1..Len(projects) : projects[i] = p

\* Two projects have the same key under a sort order
SameKey(p, q, order) ==
  IF order \in {"title-asc", "title-desc"}
    THEN p.title = q.title
    ELSE p.date = q.date

\* C13: under every sort order, two shown projects with the same sort key
\* stand in the order they have in the store
C13_StableSort ==
  \A i, j \in 1..Len(filteredProjects) :
    (i < j /\ SameKey(filteredProjects[i], filteredProjects[j], sortOrder))
      => StoreIndex(filteredProjects[i]) < StoreIndex(filteredProjects[j])

\* C13 witness: a title sort has moved a project and two projects of one
\* title are shown
C13_Witness ==
  /\ sortOrder = "title-asc"
  /\ filteredProjects # ShownInStoreOrder
  /\ \E i, j \in 1..Len(filteredProjects) :
       i < j /\ filteredProjects[i].title = filteredProjects[j].title

\* One string does not come after another in the alphabet: letter by
\* letter, whatever the case
AlphabeticalOrder(s, t) == LexCompare(s, t, LetterRank) <= 0

\* C14: the chips are the tags of the projects of the page's type, each
\* once, in ascending alphabetical order
C14_TagChips ==
  /\ Range(allTags) =
       UNION { TagsOf(p) : p \in { q \in Range(projects) : q.type = type } }
  /\ \A i, j \in 1..Len(allTags) : i # j => allTags[i] # allTags[j]
  /\ \A i, j \in 1..Len(allTags) :
       i < j => AlphabeticalOrder(allTags[i], allTags[j])

\* ------------------------------------------------------------------------
\* Properties of the store and the session
\* ------------------------------------------------------------------------

\* C15: after a failed request, a response without a success status or a
\* body that is not JSON the list is empty and loading has ended; after a
\* parsed body the list is the array received; one request is sent per
\* page load, and none after it has settled
C15_CatalogueLoad ==
  /\ appLast.op \in {"FetchFails", "ResponseNotOk", "BodyUnparsable"} =>
       projects = <<>> /\ ~isLoading /\ fetchPc = "done"
  /\ appLast.op = "BodyParsed" =>
       projects = appLast.arg[1] /\ ~isLoading /\ fetchPc = "done"
  /\ fetches = 1
  /\ isLoading = (fetchPc # "done")

\* C15 witness: the body of a successful response was not JSON
C15_Witness ==
  /\ appLast.op = "BodyUnparsable"
  /\ projects = <<>>
  /\ ~isLoading

\* C16: no two projects of the list have the same id
C16_IdsDistinct ==
  \A i, j \in 1..Len(projects) : i # j => projects[i].id # projects[j].id

\* C16 witness: the form for a new project was saved with a generated id
\* that a project of the list had, at a place after the first
C16_Witness ==
  /\ appLast.op = "HandleSaveProject"
  /\ appLast.arg[1] = "new"
  /\ appLast.arg[2] > 1
  /\ projects[appLast.arg[2]].date = Today

Unquoted(text) == [i \in 1..(Len(text) - 2) |-> text[i + 1]]

\* C18: a login attempt logs in exactly when the password typed is the
\* admin password, and otherwise changes neither the logged-in state nor
\* the session flag and shows an error; the admin password is what local
\* storage held when the page was loaded ('0000' when it held nothing) and
\* changes only to the new password of a successful change
C18_Login ==
  [][/\ appLast'.op = "HandleLoginSubmit" =>
          IF appLast'.arg[1] = adminPassword
            THEN loggedIn' /\ sessionItem' # <<>>
            ELSE /\ UNCHANGED <<loggedIn, sessionItem>>
                 /\ loginError' # ""
     /\ appLast'.op = "Restart" =>
          adminPassword' =
            IF passwordItem = <<>> THEN DefaultPassword
            ELSE Unquoted(passwordItem[1])
     /\ adminPassword' # adminPassword =>
          /\ appLast'.op = "HandleChangePassword"
          /\ adminPassword' = appLast'.arg[1]]_vars

\* C18 witness: a login with a password other than '0000' succeeded
C18_Witness ==
  /\ appLast.op = "HandleLoginSubmit"
  /\ loggedIn
  /\ appLast.arg[1] = adminPassword
  /\ adminPassword # DefaultPassword

\* C19: a submission whose two fields differ, or whose new password has
\* fewer than 4 characters, changes nothing but the message; the password,
\* in memory and in local storage, changes only by a submission that passes
\* both checks, and then to the new password
C19_PasswordChange ==
  [][/\ appLast'.op = "HandleChangePassword" =>
          IF \/ appLast'.arg[1] # appLast'.arg[2]
             \/ Len(appLast'.arg[1]) < 4
            THEN /\ passwordMessage' # ""
                 /\ UNCHANGED <<adminPassword, passwordItem, projects,
                                loggedIn, sessionItem, activePage,
                                selectedProjectId, editingProject,
                                projectToDelete, messageTimers>>
            ELSE /\ adminPassword' = appLast'.arg[1]
                 /\ passwordItem' # <<>>
                 /\ Unquoted(passwordItem'[1]) = appLast'.arg[1]
     /\ (adminPassword' # adminPassword \/ passwordItem' # passwordItem) =>
          /\ appLast'.op = "HandleChangePassword"
          /\ appLast'.arg[1] = appLast'.arg[2]
          /\ Len(appLast'.arg[1]) >= 4]_vars

\* C19 witness: a password of three characters, typed twice, was refused
\* while the admin password is not '0000'
C19_Witness ==
  /\ appLast.op = "HandleChangePassword"
  /\ appLast.arg[1] = appLast.arg[2]
  /\ Len(appLast.arg[1]) < 4
  /\ passwordMessage = "Password must be at least 4 characters long."
  /\ adminPassword # DefaultPassword

\* C20: the admin is logged in exactly when session storage holds the
\* flag, and a reload of the page leaves the logged-in state as it was
C20_SessionFlag ==
  /\ [](loggedIn <=> sessionItem # <<>>)
  /\ [][appLast'.op = "Restart" => loggedIn' = loggedIn]_vars

\* C20 witness: the page was reloaded during a session and the admin is
\* logged in, before the catalogue has arrived
C20_Witness ==
  /\ appLast.op = "Restart"
  /\ loggedIn
  /\ sessionItem = <<LoggedInText>>
  /\ isLoading

\* C21: every close request issued while the lightbox is open is eventually
\* followed by the closed state, when promises settle and queued events are
\* dispatched, whatever the outcome of the exit-fullscreen request
C21_CloseEventuallyCloses ==
  (last.op = "close") ~> (lightboxIndex = Null)

\* No openLightbox call is suspended, no exit request is unsettled and no
\* fullscreenchange event awaits dispatch
PlatformQuiet ==
  /\ calls = <<>>
  /\ exitRequests = 0
  /\ fsEvents = 0

\* C22: once the lightbox is closed again or the detail view is torn down,
\* and nothing is pending any more, the document is not in the fullscreen
\* presentation and the orientation is not locked, whatever the interleaving
\* of teardown and platform fullscreen exits with a pending open request
C22_AcquisitionsReleased ==
  ((~mounted \/ lightboxIndex = Null) /\ PlatformQuiet) =>
     (~fullscreenElement /\ ~orientationLocked)

\* The records of a list other than the one at position k, in list order
Others(list, k) ==
  [j \in 1..(Len(list) - 1) |-> list[IF j < k THEN j ELSE j + 1]]

\* The records of a list whose id is not the given one, in list order
OthersById(list, id) == SelectSeq(list, LAMBDA p : p.id # id)

\* C23: each admin mutation changes only its target. A save whose id is in
\* the list keeps the length and every other position and puts a record of
\* that id at the same position; a save with a new id puts the record in
\* front of the unchanged list; a delete removes the one record of the id and
\* leaves the others in order; a drag-reorder puts the dragged record at the
\* hovered index and leaves the others in order, and without two different
\* indices it changes nothing
C23_MutationsChangeOnlyTarget ==
  [][ /\ appLast'.op = "HandleSaveProject" =>
           LET found == appLast'.arg[2]
           IN IF found # 0
                THEN /\ Len(projects') = Len(projects)
                     /\ projects'[found].id = projects[found].id
                     /\ Others(projects', found) = Others(projects, found)
                ELSE /\ Len(projects') = Len(projects) + 1
                     /\ \A i \in 1..Len(projects) :
                          projects[i].id # projects'[1].id
                     /\ Tail(projects') = projects
      /\ appLast'.op = "HandleDeleteProject" =>
           LET id == projectToDelete.project.id
           IN /\ Len(projects') = Len(projects) - 1
              /\ \A i \in 1..Len(projects') : projects'[i].id # id
              /\ projects' = OthersById(projects, id)
      /\ appLast'.op = "HandleDragSort" =>
           LET dragIndex == appLast'.arg[1]
               hoverIndex == appLast'.arg[2]
           IN IF dragIndex = Null \/ hoverIndex = Null \/ dragIndex = hoverIndex
                THEN projects' = projects
                ELSE /\ Len(projects') = Len(projects)
                     /\ projects'[hoverIndex + 1] = projects[dragIndex + 1]
                     /\ Others(projects', hoverIndex + 1) =
                          Others(projects, dragIndex + 1)
    ]_vars

\* C23 witness: in a list of three records the last row was dragged onto the
\* first, and the list is no longer in the published order
C23_Witness ==
  /\ appLast.op = "HandleDragSort"
  /\ appLast.arg = <<2, 0>>
  /\ Len(projects) = 3
  /\ projects # Published

\* The projects of the store that have the type of the record with an id, in
\* store order
SameTypeAs(id) ==
  SelectSeq(projects,
            LAMBDA p : \E i \in 1..Len(projects) :
                          projects[i].id = id /\ projects[i].type = p.type)

\* The position of the record with an id in a list that holds it
PositionOf(list, id) == CHOOSE i \in 1..Len(list) : list[i].id = id

\* The selected id after n presses of a navigation button
RECURSIVE Navigated(_, _, _)
Navigated(id, direction, n) ==
  IF n = 0 THEN id
  ELSE Navigated(NavigateProject(projects, id, direction), direction, n - 1)

\* C24: 'next' and 'previous' in the detail view select a project of the
\* current project's type, one step further or back with wrap-around among
\* the projects of that type in store order, and leave the store alone; k
\* presses of 'next', k being the number of projects of that type, lead back
\* to the current project; with no selected project the handler changes
\* nothing
C24_ProjectNavigation ==
  /\ [](HasSelectedProject =>
          Navigated(selectedProjectId, "next", Len(SameTypeAs(selectedProjectId)))
            = selectedProjectId)
  /\ [][ appLast'.op = "HandleNavigateProject" =>
           IF ~HasSelectedProject
             THEN UNCHANGED <<projects, loadVars, passwordVars, sessionVars,
                              activePage, selectedProjectId, loginError,
                              dashboardVars, lbVars, pageVars>>
             ELSE LET same == SameTypeAs(selectedProjectId)
                      k == Len(same)
                      from == PositionOf(same, selectedProjectId)
                  IN /\ projects' = projects
                     /\ \E to \in 1..k :
                          /\ same[to].id = selectedProjectId'
                          /\ to = IF appLast'.arg[1] = "next"
                                    THEN (IF from = k THEN 1 ELSE from + 1)
                                    ELSE (IF from = 1 THEN k ELSE from - 1)
       ]_vars

\* C24 witness: 'next' was pressed on the last project of its type, the
\* first of that type is now selected, and a project of another type stands
\* in the store
C24_Witness ==
  /\ appLast.op = "HandleNavigateProject"
  /\ appLast.arg = <<"next">>
  /\ HasSelectedProject
  /\ Len(SameTypeAs(selectedProjectId)) >= 2
  /\ Len(SameTypeAs(selectedProjectId)) < Len(projects)
  /\ PositionOf(SameTypeAs(selectedProjectId), selectedProjectId) = 1

====
